---- MODULE Spec2Model ----
(***************************************************************************)
(* Model of DraggableCharacter in src/components/SevenDropsTitle.tsx: the  *)
(* refs it owns (posRef, velocityRef, draggingRef, offsetRef,              *)
(* animationFrameRef, lastTimeRef, lastCollidedButton), its input handlers *)
(* and physicsStep, together with the browser's animation-frame callback   *)
(* list that schedules physicsStep.                                        *)
(*                                                                         *)
(* Units.  Lengths are in 1/1000 px, velocities in 1/1000 px/s, times in   *)
(* ms.  The code computes in IEEE doubles; a product with a fractional     *)
(* factor (v*dt, v*0.7, v*0.95) is rounded here to the nearest 1/1000      *)
(* (RoundDiv), a sum is exact.                                             *)
(*                                                                         *)
(* The character element is 3rem x 3rem (48 px); its rotation is           *)
(* presentation and is not part of the model.  The animate-bounce class    *)
(* lifts the rendered rectangle by up to 4 px while the character is not   *)
(* dragged: handleDragStart reads the rectangle at any phase of that       *)
(* animation (input grab.lift), physicsStep is modelled at the phase       *)
(* without lift.  The scale that handleCollisionWithButton puts on a menu  *)
(* button is not modelled: the rectangles of buttons and pieces change     *)
(* only when the page is laid out anew (action Reflow of EdgeSpec).        *)
(* getBoundingClientRect() of the character returns the rectangle React    *)
(* last rendered: setPos() called inside an animation-frame callback is    *)
(* rendered after the frame's callbacks have run, so every callback of one *)
(* frame reads the rectangle rendered before that frame (variable dom).    *)
(* The same holds for the title letter: TitleLetter sets isPressed from    *)
(* the characterMove event of a step, and the pressed letter is rendered   *)
(* once the frame's callbacks have run (variable pressed).                 *)
(***************************************************************************)
EXTENDS Integers, Sequences, FiniteSets, TLC

VARIABLES
  posRef,             \* posRef.current: [x, y]
  velocityRef,        \* velocityRef.current: [vx, vy]
  draggingRef,        \* draggingRef.current
  offsetRef,          \* offsetRef.current: [x, y]
  animationFrameRef,  \* [set, rank]: set = (current !== null); rank = position of
                      \* that handle among the pending callbacks, 0 if not pending
  lastTimeRef,        \* [set, ago]: set = (current !== null); ago = ms from
                      \* lastTimeRef.current to the latest clock reading
  lastCollidedButton, \* lastCollidedButton.current: a tag, or NoTag for null
  nPending,           \* browser: callbacks in the animation frame callback list
  nFrame,             \* browser: callbacks of the running frame not yet invoked
  dom,                \* rendered top-left of the character during a frame
  layout,             \* document.querySelectorAll(".obstacle"), in document order
  pressed,            \* isPressed of the title letter, as rendered
  emitted,            \* notifications raised by the latest physicsStep
  rescheduled,        \* the latest physicsStep ended by requesting a frame
  contOverlap,        \* tags entered and overlapped by the character ever since
  dragSeen,           \* tags the character was moved onto during the current drag
  dragLeft,           \* tags of dragSeen the character has left again in that drag
  dragNotes,          \* notifications raised since the latest drag-start
  lastPointer,        \* pointer position of the latest drag-start or drag-move
                      \* that took effect
  sinceDragEnd,       \* [set, ago]: set = a drag-end took effect and no step has
                      \* run since; ago = ms from its clock reading to the latest
                      \* clock reading
  elapsed,            \* time - lastTimeRef.current of the latest physicsStep, ms
  grabVelocity,       \* velocityRef.current at the latest drag-start
  last,               \* name of the latest handler that ran
  events,             \* input events so far
  frames              \* animation frames so far

vars == <<posRef, velocityRef, draggingRef, offsetRef, animationFrameRef,
          lastTimeRef, lastCollidedButton, nPending, nFrame, dom, layout,
          pressed, emitted, rescheduled, contOverlap, dragSeen, dragLeft, dragNotes,
          lastPointer, sinceDragEnd, elapsed, grabVelocity, last, events, frames>>

----------------------------------------------------------------------------
(* Bounds of the model *)

ViewportWidth == 300000
ViewportHeight == 300000
MaxEvents == 4
MaxFrames == 4
MaxPending == 2

(* Program constants *)

Milli == 1000
gravity == 2000
MaxDt == 100
CharSize == 48
JumpSpeed == 800
LoudSpeed == 100
KeyNudge == 20
DefaultRightGap == 80
DefaultTop == 100
PressDepth == 8
BounceLift == 4

Px(n) == n * Milli

NoTag == "none"

----------------------------------------------------------------------------
(* Arithmetic *)

Abs(a) == IF a < 0 THEN -a ELSE a

Min2(a, b) == IF a <= b THEN a ELSE b

Max2(a, b) == IF a >= b THEN a ELSE b

\* a / b rounded to the nearest integer, halves away from zero (b > 0)
RoundDiv(a, b) ==
  IF a >= 0 THEN (2 * a + b) \div (2 * b)
            ELSE -((2 * (-a) + b) \div (2 * b))

\* v * num/den, the product of v with the decimal constant num/den
Times(v, num, den) == RoundDiv(v * num, den)

----------------------------------------------------------------------------
(* Obstacles *)

Rect(l, t, r, b) == [left |-> l, top |-> t, right |-> r, bottom |-> b]

Obstacle(id, l, t, r, b, tag, letter, div) ==
  [id |-> id, rect |-> Rect(Px(l), Px(t), Px(r), Px(b)), tag |-> tag,
   letter |-> letter, div |-> div, offsetY |-> 0]

\* the title letter S the character is placed on
LetterS == Obstacle("S", 130, 148, 178, 196, NoTag, TRUE, FALSE)

\* two menu buttons side by side
ButtonA == Obstacle("A", 40, 200, 100, 230, "A", FALSE, FALSE)

ButtonB == Obstacle("B", 100, 200, 180, 230, "B", FALSE, FALSE)

\* a tangram piece where ButtonB would be
PieceG == Obstacle("G", 100, 200, 180, 230, NoTag, FALSE, TRUE)

\* the rectangle and the transform of a title letter that is rendered pressed:
\* translateY(0.5rem); the 0.3 s transition is taken as finished
PressedLetter(o) ==
  [o EXCEPT !.rect.top = @ + Px(PressDepth), !.rect.bottom = @ + Px(PressDepth),
            !.offsetY = Px(PressDepth)]

\* the obstacles as getBoundingClientRect and getComputedStyle report them
Rendered(obstacles, isPressed) ==
  [i \in 1..Len(obstacles) |->
     IF obstacles[i].letter /\ isPressed THEN PressedLetter(obstacles[i])
                                        ELSE obstacles[i]]

Layouts ==
  { <<>>,
    <<LetterS, ButtonA, ButtonB>>,
    <<PieceG, LetterS, ButtonA>> }

\* a decorative piece collapsed to a point inside the character's default place
Speck == Obstacle("Z", 244, 120, 244, 120, NoTag, FALSE, TRUE)

\* a page with one menu button, and a page with the collapsed piece
ContactLayouts == { <<ButtonB>>, <<Speck>> }

\* a title letter above the top edge of a window too short for the page's column
LetterTop == Obstacle("D", 90, -60, 138, -10, NoTag, TRUE, FALSE)

\* a short window with the letter out of sight above the menu button, and the
\* page laid out with the letter S in sight and without the button
EdgeLayouts == { <<LetterTop, ButtonB>>, <<LetterS>> }

Tags == {"A", "B"}

CharRectAt(p) ==
  Rect(p.x, p.y, p.x + Px(CharSize), p.y + Px(CharSize))

isColliding(rect1, rect2) ==
  ~ ( rect1.right < rect2.left
      \/ rect1.left > rect2.right
      \/ rect1.bottom < rect2.top
      \/ rect1.top > rect2.bottom )

----------------------------------------------------------------------------
(* physicsStep *)

bounceFactor == [num |-> 7, den |-> 10]

PHYSICS_PARAMS(isLetterObstacle) ==
  IF isLetterObstacle
    THEN [bounceFactor |-> [num |-> 7, den |-> 10],
          friction |-> [num |-> 98, den |-> 100],
          landingThreshold |-> Px(200),
          restEpsilon |-> Px(2)]
    ELSE [bounceFactor |-> [num |-> 7, den |-> 10],
          friction |-> [num |-> 95, den |-> 100],
          landingThreshold |-> Px(150),
          restEpsilon |-> Px(5)]

\* dt without the upper limit
StepDtUnclamped(ago) == ago

\* dt = Math.min((time - lastTimeRef.current) / 1000, 0.1), in ms
StepDt(ago) == Min2(ago, MaxDt)

\* gravity applied under the inverted condition
GravitateWhileDragging(vel, dt, dragging) ==
  IF dragging THEN [vel EXCEPT !.vy = @ + gravity * dt] ELSE vel

\* if (!draggingRef.current) velocityRef.current.vy += gravity * dt
Gravitate(vel, dt, dragging) ==
  IF ~dragging THEN [vel EXCEPT !.vy = @ + gravity * dt] ELSE vel

\* both coordinates advanced by vx
IntegrateWithVx(pos, vel, dt) ==
  [x |-> pos.x + RoundDiv(vel.vx * dt, Milli),
   y |-> pos.y + RoundDiv(vel.vx * dt, Milli)]

\* posRef.current.x += vx * dt; posRef.current.y += vy * dt
Integrate(pos, vel, dt) ==
  [x |-> pos.x + RoundDiv(vel.vx * dt, Milli),
   y |-> pos.y + RoundDiv(vel.vy * dt, Milli)]

\* the reflection without damping
BounceUndamped(v, f) == -v

\* the bounce with the factor inverted
BounceAmplified(v, f) == Times(-v, f.den, f.num)

Bounce(v, f) == Times(-v, f.num, f.den)

ClampLeft(b) ==
  IF b.pos.x < 0
    THEN [b EXCEPT !.pos.x = 0, !.vel.vx = Bounce(b.vel.vx, bounceFactor)]
    ELSE b

ClampRight(b) ==
  IF b.pos.x + Px(CharSize) > ViewportWidth
    THEN [b EXCEPT !.pos.x = ViewportWidth - Px(CharSize),
                   !.vel.vx = Bounce(b.vel.vx, bounceFactor)]
    ELSE b

ClampTop(b) ==
  IF b.pos.y < 0
    THEN [b EXCEPT !.pos.y = 0, !.vel.vy = Bounce(b.vel.vy, bounceFactor)]
    ELSE b

ClampBottom(b) ==
  IF b.pos.y + Px(CharSize) > ViewportHeight
    THEN [b EXCEPT !.pos.y = ViewportHeight - Px(CharSize),
                   !.vel.vy = Bounce(b.vel.vy, bounceFactor),
                   !.notes = IF Abs(b.vel.vy) > Px(LoudSpeed)
                               THEN Append(@, <<"landed", NoTag>>) ELSE @]
    ELSE b

ClampViewport(b) == ClampBottom(ClampTop(ClampRight(ClampLeft(b))))

\* handleCollisionWithButton(button, isCollidingFlag): the notification
handleCollisionWithButton(notes, button, isCollidingFlag) ==
  Append(notes, <<IF isCollidingFlag THEN "buttonEnter" ELSE "buttonExit", button>>)

\* the menu-button branch, with a tagged obstacle also shoving the character
TrackButtonShoving(b, o) ==
  IF o.tag # NoTag
    THEN IF o.tag # b.last
           THEN [b EXCEPT !.notes = handleCollisionWithButton(@, o.tag, TRUE),
                          !.last = o.tag, !.pos.x = @ + Px(1)]
           ELSE b
    ELSE IF b.last # NoTag
           THEN [b EXCEPT !.notes = handleCollisionWithButton(@, b.last, FALSE),
                          !.last = NoTag]
           ELSE b

\* the menu-button branch of a collision
TrackButton(b, o) ==
  IF o.tag # NoTag
    THEN IF o.tag # b.last
           THEN [b EXCEPT !.notes = handleCollisionWithButton(@, o.tag, TRUE),
                          !.last = o.tag]
           ELSE b
    ELSE IF b.last # NoTag
           THEN [b EXCEPT !.notes = handleCollisionWithButton(@, b.last, FALSE),
                          !.last = NoTag]
           ELSE b

\* land sound and shake/glow of a decorative piece
CollisionEffects(b, o) ==
  LET n1 == IF Abs(b.vel.vy) > Px(LoudSpeed)
              THEN Append(b.notes, <<"landed", NoTag>>) ELSE b.notes
      n2 == IF o.tag = NoTag /\ o.div
              THEN Append(n1, <<"pieceShaken", o.id>>) ELSE n1
  IN  [b EXCEPT !.notes = n2]

\* the chain of comparisons started with the horizontal overlaps
ResolveAxisLeftFirst(charRect, obsRect) ==
  LET overlapLeft == charRect.right - obsRect.left
      overlapRight == obsRect.right - charRect.left
      overlapTop == charRect.bottom - obsRect.top
      overlapBottom == obsRect.bottom - charRect.top
      minOverlap == Min2(Min2(overlapLeft, overlapRight),
                         Min2(overlapTop, overlapBottom))
  IN  [axis |-> IF minOverlap = overlapLeft THEN "left"
                ELSE IF minOverlap = overlapRight THEN "right"
                ELSE IF minOverlap = overlapTop THEN "top"
                ELSE "bottom",
       minOverlap |-> minOverlap]

\* the axis the if-else chain on minOverlap takes
ResolveAxis(charRect, obsRect) ==
  LET overlapLeft == charRect.right - obsRect.left
      overlapRight == obsRect.right - charRect.left
      overlapTop == charRect.bottom - obsRect.top
      overlapBottom == obsRect.bottom - charRect.top
      minOverlap == Min2(Min2(overlapLeft, overlapRight),
                         Min2(overlapTop, overlapBottom))
  IN  [axis |-> IF minOverlap = overlapTop THEN "top"
                ELSE IF minOverlap = overlapBottom THEN "bottom"
                ELSE IF minOverlap = overlapLeft THEN "left"
                ELSE "right",
       minOverlap |-> minOverlap]

\* the side stop with the ground's threshold for every class
SoftStopAsGround(v, params) ==
  IF Abs(v) < Px(150) THEN 0 ELSE Bounce(v, params.bounceFactor)

SoftStop(v, params) ==
  IF Abs(v) < params.landingThreshold THEN 0 ELSE Bounce(v, params.bounceFactor)

\* position and velocity after resolving the overlap with obstacle o
Resolve(b, o, charRect) ==
  LET r == ResolveAxis(charRect, o.rect)
      params == PHYSICS_PARAMS(o.letter)
      letterOffsetY == IF o.letter THEN o.offsetY ELSE 0
      vxf == Times(b.vel.vx, params.friction.num, params.friction.den)
  IN  IF r.axis = "top"
        THEN IF Abs(b.vel.vy) < params.landingThreshold
               THEN [b EXCEPT !.pos.y = o.rect.top - Px(CharSize) + letterOffsetY,
                              !.vel.vy = 0,
                              !.vel.vx = IF Abs(vxf) < params.restEpsilon
                                           THEN 0 ELSE vxf]
               ELSE [b EXCEPT !.pos.y = @ - r.minOverlap,
                              !.vel.vy = Bounce(b.vel.vy, params.bounceFactor)]
      ELSE IF r.axis = "bottom"
        THEN [b EXCEPT !.pos.y = @ + r.minOverlap,
                       !.vel.vy = Bounce(b.vel.vy, params.bounceFactor)]
      ELSE IF r.axis = "left"
        THEN [b EXCEPT !.pos.x = @ - r.minOverlap,
                       !.vel.vx = SoftStop(b.vel.vx, params)]
        ELSE [b EXCEPT !.pos.x = @ + r.minOverlap,
                       !.vel.vx = SoftStop(b.vel.vx, params)]

\* the obstacle is outside the viewport: skipped
OffScreen(obsRect) ==
  \/ obsRect.right < 0
  \/ obsRect.left > ViewportWidth
  \/ obsRect.bottom < 0
  \/ obsRect.top > ViewportHeight

\* the overlap test of an iteration and what follows it
TestObstacle(b, o, charRect) ==
  IF isColliding(charRect, o.rect)
    THEN Resolve(CollisionEffects(TrackButton([b EXCEPT !.didCollide = TRUE], o), o),
                 o, charRect)
    ELSE b

\* one iteration of obstacles.forEach
VisitObstacle(b, o, charRect) ==
  IF OffScreen(o.rect) THEN b ELSE TestObstacle(b, o, charRect)

RECURSIVE VisitObstacles(_, _, _, _)
VisitObstacles(b, obstacles, i, charRect) ==
  IF i > Len(obstacles) THEN b
  ELSE VisitObstacles(VisitObstacle(b, obstacles[i], charRect), obstacles, i + 1, charRect)

\* the step without the exit of the tracked button
ExitSkipped(b) == b

\* if (!didCollide && lastCollidedButton.current) ...
ExitWhenNoCollision(b) ==
  IF ~b.didCollide /\ b.last # NoTag
    THEN [b EXCEPT !.notes = handleCollisionWithButton(@, b.last, FALSE),
                   !.last = NoTag]
    ELSE b

\* the comparison made inclusive
ContinueLoopInclusive(dragging, vel) ==
  dragging \/ Abs(vel.vx) >= Px(1) \/ Abs(vel.vy) >= Px(1)

\* the loop goes on
ContinueLoop(dragging, vel) ==
  dragging \/ Abs(vel.vx) > Px(1) \/ Abs(vel.vy) > Px(1)

\* physicsStep from integration up to the obstacle loop, dt in ms
Arrive(pos, vel, lastButton, dragging, dt) ==
  LET v1 == Gravitate(vel, dt, dragging)
      p1 == Integrate(pos, v1, dt)
  IN  ClampViewport([pos |-> p1, vel |-> v1, last |-> lastButton,
                     didCollide |-> FALSE, notes |-> <<>>])

\* physicsStep from integration up to setPos, dt in ms, charRect as rendered
StepBody(pos, vel, lastButton, dragging, dt, charRect, obstacles) ==
  LET b1 == Arrive(pos, vel, lastButton, dragging, dt)
      b2 == VisitObstacles(b1, obstacles, 1, charRect)
  IN  ExitWhenNoCollision(b2)

\* TitleLetter's characterMove listener: setIsPressed(colliding)
LetterTouched(charRect, obstacles) ==
  \E i \in 1..Len(obstacles) :
    obstacles[i].letter /\ isColliding(charRect, obstacles[i].rect)

----------------------------------------------------------------------------
(* Inputs drawn by the environment *)

\* ms between the previous clock reading and a frame's timestamp
FrameDts == {0, 16, 100}

\* (Math.random() - 0.5) * 200
ImpulseVx == {Px(-100), Px(1)}

\* where inside the character the pointer goes down
GrabOffsets == {[x |-> Px(24), y |-> Px(24), lift |-> 0]}

\* pointer positions of drag moves: with the grab offset they put the character
\* across the tops of the two menu-button rectangles, left of ButtonA against the
\* viewport's left edge, and in the free column on the right
Pointers ==
  { [x |-> Px(104), y |-> Px(184)],
    [x |-> Px(24), y |-> Px(214)],
    [x |-> Px(244), y |-> Px(224)] }

Keys == {"ArrowLeft", "ArrowRight", " "}

\* grabs at both ends of the bounce animation: rectangle at rest, and lifted
\* frame timestamps as in FrameDts, and one taken 4 ms before the drag-end's
\* performance.now()
ContactFrameDts == {-4, 16, 100}

LiftedGrabs ==
  { [x |-> Px(24), y |-> Px(24), lift |-> 0],
    [x |-> Px(24), y |-> Px(24), lift |-> Px(BounceLift)] }

\* pointer positions that, with the grab offset, put the character on top of
\* ButtonB (bottom edge on the button's top edge) and under it (4 px into its
\* bottom edge)
ContactPointers ==
  { [x |-> Px(140), y |-> Px(176)],
    [x |-> Px(140), y |-> Px(250)] }

\* ms between two frames of a 60 Hz display
FrameInterval == 16

\* frames at the display's rate, and one after the tab was in the background
EdgeFrameDts == {16, 250}

\* (Math.random() - 0.5) * 200: two jumps reach a speed between the landing
\* thresholds of the two classes
EdgeImpulseVx == {Px(-90), Px(1)}

\* pointer positions that, with the grab offset, put the character across
\* ButtonB's top left corner (8 px in from the top and from the left), across its
\* bottom right corner (8 px in from the bottom and from the right), 4 px into
\* its left edge, 4 px into its right edge (2 px into the right edge of LetterS),
\* and 20 px above the viewport's top edge on LetterTop
EdgePointers ==
  { [x |-> Px(84), y |-> Px(184)],
    [x |-> Px(196), y |-> Px(246)],
    [x |-> Px(80), y |-> Px(214)],
    [x |-> Px(200), y |-> Px(214)],
    [x |-> Px(124), y |-> Px(4)] }

----------------------------------------------------------------------------
(* The browser's animation frame callback list *)

NullHandle == [set |-> FALSE, rank |-> 0]

\* the list after cancelAnimationFrame(handle): [n, f]
CancelFrame(handle, n, f) ==
  IF handle.set /\ handle.rank >= 1
    THEN [n |-> n - 1, f |-> IF handle.rank <= f THEN f - 1 ELSE f]
    ELSE [n |-> n, f |-> f]

\* the handle requestAnimationFrame returns when n callbacks are pending
RequestFrame(n) == [set |-> TRUE, rank |-> n + 1]

\* animationFrameRef once the oldest pending callback has been taken off the list
AfterInvoke(handle) ==
  IF handle.rank = 0 THEN handle
  ELSE [set |-> handle.set, rank |-> handle.rank - 1]

----------------------------------------------------------------------------
(* History *)

TagsAt(p, obstacles) ==
  { obstacles[i].tag : i \in { j \in 1..Len(obstacles) :
        /\ obstacles[j].tag # NoTag
        /\ isColliding(CharRectAt(p), obstacles[j].rect) } }

NotesOf(notes) == { notes[i] : i \in 1..Len(notes) }

Entered(notes) == { t \in Tags : <<"buttonEnter", t>> \in NotesOf(notes) }

----------------------------------------------------------------------------
(* Construction *)

\* initialPos: on top of the letter S, else { x: window.innerWidth - 80, y: 100 }
InitialPos(obstacles) ==
  IF \E i \in 1..Len(obstacles) : obstacles[i] = LetterS
    THEN [x |-> LetterS.rect.left
                  + (LetterS.rect.right - LetterS.rect.left - Px(CharSize)) \div 2,
          y |-> LetterS.rect.top - Px(CharSize)]
    ELSE [x |-> ViewportWidth - Px(DefaultRightGap), y |-> Px(DefaultTop)]

\* the refs and the page once DraggableCharacter is mounted
Mounted ==
  /\ posRef = InitialPos(layout)
  /\ velocityRef = [vx |-> 0, vy |-> 0]
  /\ draggingRef = FALSE
  /\ offsetRef = [x |-> 0, y |-> 0]
  /\ animationFrameRef = NullHandle
  /\ lastTimeRef = [set |-> FALSE, ago |-> 0]
  /\ lastCollidedButton = NoTag
  /\ nPending = 0
  /\ nFrame = 0
  /\ dom = posRef
  /\ pressed = FALSE
  /\ emitted = <<>>
  /\ rescheduled = FALSE
  /\ contOverlap = {}
  /\ dragSeen = {}
  /\ dragLeft = {}
  /\ dragNotes = {}
  /\ lastPointer = [x |-> 0, y |-> 0]
  /\ sinceDragEnd = [set |-> FALSE, ago |-> 0]
  /\ elapsed = 0
  /\ grabVelocity = [vx |-> 0, vy |-> 0]
  /\ last = "init"
  /\ events = 0
  /\ frames = 0

Init == layout \in Layouts /\ Mounted

ContactInit == layout \in ContactLayouts /\ Mounted

EdgeInit == layout \in EdgeLayouts /\ Mounted

\* an input event is dispatched between frames
InputReady == nFrame = 0 /\ events < MaxEvents

----------------------------------------------------------------------------
(* Input handlers *)

handleDragStart(grab) ==
  /\ InputReady
  /\ LET rect == CharRectAt([x |-> posRef.x, y |-> posRef.y - grab.lift])
         pointer == [x |-> rect.left + grab.x, y |-> rect.top + grab.y]
         list == CancelFrame(animationFrameRef, nPending, nFrame)
     IN  /\ draggingRef' = TRUE
         /\ nPending' = list.n
         /\ nFrame' = list.f
         /\ animationFrameRef' = NullHandle
         /\ offsetRef' = [x |-> pointer.x - rect.left, y |-> pointer.y - rect.top]
         /\ lastPointer' = pointer
  /\ sinceDragEnd' = [set |-> FALSE, ago |-> 0]
  /\ dragSeen' = {}
  /\ dragLeft' = {}
  /\ dragNotes' = {}
  /\ emitted' = <<>>
  /\ last' = "dragStart"
  /\ events' = events + 1
  /\ grabVelocity' = velocityRef
  /\ UNCHANGED <<elapsed, frames, posRef, velocityRef, lastTimeRef, lastCollidedButton,
                 dom, layout, pressed, rescheduled, contOverlap>>

handleDragMove(pointer) ==
  /\ InputReady
  /\ IF draggingRef
       THEN LET newPos == [x |-> pointer.x - offsetRef.x, y |-> pointer.y - offsetRef.y]
                now == TagsAt(newPos, layout)
            IN  /\ posRef' = newPos
                /\ dom' = newPos
                /\ dragLeft' = dragLeft \cup (dragSeen \ now)
                /\ dragSeen' = dragSeen \cup (now \ TagsAt(posRef, layout))
                /\ contOverlap' = contOverlap \cap now
                /\ lastPointer' = pointer
       ELSE UNCHANGED <<posRef, dom, dragLeft, dragSeen, contOverlap, lastPointer>>
  /\ UNCHANGED sinceDragEnd
  /\ emitted' = <<>>
  /\ last' = "dragMove"
  /\ events' = events + 1
  /\ UNCHANGED <<elapsed, grabVelocity>>
  /\ UNCHANGED <<frames, velocityRef, draggingRef, offsetRef, animationFrameRef,
                 lastTimeRef, lastCollidedButton, nPending, nFrame, layout, pressed,
                 rescheduled, dragNotes>>

handleDragEnd ==
  /\ InputReady
  /\ IF draggingRef
       THEN /\ nPending < MaxPending
            /\ draggingRef' = FALSE
            /\ lastTimeRef' = [set |-> TRUE, ago |-> 0]
            /\ animationFrameRef' = RequestFrame(nPending)
            /\ nPending' = nPending + 1
            /\ sinceDragEnd' = [set |-> TRUE, ago |-> 0]
       ELSE UNCHANGED <<draggingRef, lastTimeRef, animationFrameRef, nPending,
                        sinceDragEnd>>
  /\ UNCHANGED lastPointer
  /\ emitted' = <<>>
  /\ last' = "dragEnd"
  /\ events' = events + 1
  /\ UNCHANGED <<elapsed, grabVelocity>>
  /\ UNCHANGED <<frames, posRef, velocityRef, offsetRef, lastCollidedButton, nFrame, dom,
                 layout, pressed, rescheduled, contOverlap, dragSeen, dragLeft,
                 dragNotes>>

\* the jump without the test of draggingRef
JumpAlways(random) ==
  /\ nPending < MaxPending
  /\ velocityRef' = [vx |-> velocityRef.vx + random, vy |-> -Px(JumpSpeed)]
  /\ lastTimeRef' = [set |-> TRUE, ago |-> 0]
  /\ animationFrameRef' = RequestFrame(nPending)
  /\ nPending' = nPending + 1

\* the jump of handleClick and of the space key
Jump(random) ==
  IF ~draggingRef
    THEN /\ nPending < MaxPending
         /\ velocityRef' = [vx |-> velocityRef.vx + random, vy |-> -Px(JumpSpeed)]
         /\ lastTimeRef' = [set |-> TRUE, ago |-> 0]
         /\ animationFrameRef' = RequestFrame(nPending)
         /\ nPending' = nPending + 1
    ELSE UNCHANGED <<velocityRef, lastTimeRef, animationFrameRef, nPending>>

handleClick(random) ==
  /\ InputReady
  /\ Jump(random)
  /\ UNCHANGED <<lastPointer, sinceDragEnd>>
  /\ emitted' = <<>>
  /\ last' = "click"
  /\ events' = events + 1
  /\ UNCHANGED <<elapsed, grabVelocity>>
  /\ UNCHANGED <<frames, posRef, draggingRef, offsetRef, lastCollidedButton, nFrame, dom,
                 layout, pressed, rescheduled, contOverlap, dragSeen, dragLeft,
                 dragNotes>>

\* the arrow-key move without the clamp
NudgeUnclamped(pos, key) ==
  IF key = "ArrowLeft"
    THEN [pos EXCEPT !.x = pos.x - Px(KeyNudge)]
    ELSE [pos EXCEPT !.x = pos.x + Px(KeyNudge)]

\* the position after an arrow key
Nudge(pos, key) ==
  IF key = "ArrowLeft"
    THEN [pos EXCEPT !.x = Max2(0, pos.x - Px(KeyNudge))]
    ELSE [pos EXCEPT !.x = Min2(ViewportWidth - Px(CharSize), pos.x + Px(KeyNudge))]

handleKeyDown(key, random) ==
  /\ InputReady
  /\ IF key = " "
       THEN /\ Jump(random)
            /\ UNCHANGED <<posRef, dom, contOverlap, dragSeen, dragLeft>>
       ELSE LET newPos == Nudge(posRef, key)
                now == TagsAt(newPos, layout)
            IN  /\ posRef' = newPos
                /\ dom' = newPos
                /\ contOverlap' = contOverlap \cap now
                /\ dragLeft' = IF draggingRef THEN dragLeft \cup (dragSeen \ now)
                                              ELSE dragLeft
                /\ dragSeen' = IF draggingRef
                                 THEN dragSeen \cup (now \ TagsAt(posRef, layout))
                                 ELSE dragSeen
                /\ UNCHANGED <<velocityRef, lastTimeRef, animationFrameRef, nPending>>
  /\ UNCHANGED <<lastPointer, sinceDragEnd>>
  /\ emitted' = <<>>
  /\ last' = IF key = " " THEN "keyJump" ELSE "keyNudge"
  /\ events' = events + 1
  /\ UNCHANGED <<elapsed, grabVelocity>>
  /\ UNCHANGED <<frames, draggingRef, offsetRef, lastCollidedButton, nFrame, layout,
                 pressed, rescheduled, dragNotes>>

\* the page is laid out anew between two frames: the next step's
\* querySelectorAll(".obstacle") returns other elements
Reflow(obstacles) ==
  /\ InputReady
  /\ obstacles # layout
  /\ layout' = obstacles
  /\ contOverlap' = contOverlap \cap TagsAt(posRef, obstacles)
  /\ emitted' = <<>>
  /\ last' = "reflow"
  /\ events' = events + 1
  /\ UNCHANGED <<posRef, velocityRef, draggingRef, offsetRef, animationFrameRef,
                 lastTimeRef, lastCollidedButton, nPending, nFrame, dom, pressed,
                 rescheduled, dragSeen, dragLeft, dragNotes, lastPointer,
                 sinceDragEnd, elapsed, grabVelocity, frames>>

----------------------------------------------------------------------------
(* Animation frames *)

\* the browser starts a frame: the callbacks pending now are the frame's, and all
\* of them get the frame's timestamp, d ms after the previous clock reading (d < 0:
\* the timestamp was taken before the drag-end handler that ran last read the
\* clock)
StartFrame(d) ==
  /\ nFrame = 0
  /\ nPending > 0
  /\ d < 0 => (last = "dragEnd" /\ sinceDragEnd.set)
  /\ nFrame' = nPending
  /\ lastTimeRef' = IF lastTimeRef.set
                      THEN [lastTimeRef EXCEPT !.ago = @ + d]
                      ELSE lastTimeRef
  /\ dom' = posRef
  /\ sinceDragEnd' = IF sinceDragEnd.set
                       THEN [sinceDragEnd EXCEPT !.ago = @ + d]
                       ELSE sinceDragEnd
  /\ UNCHANGED lastPointer
  /\ emitted' = <<>>
  /\ last' = "frame"
  /\ UNCHANGED <<elapsed, grabVelocity>>
  /\ UNCHANGED <<events, posRef, velocityRef, draggingRef, offsetRef, animationFrameRef,
                 lastCollidedButton, nPending, layout, pressed, rescheduled, contOverlap,
                 dragSeen, dragLeft, dragNotes>>

\* a frame of a run of at most MaxFrames frames
BeginFrame(d) ==
  /\ frames < MaxFrames
  /\ frames' = frames + 1
  /\ StartFrame(d)

\* the browser invokes the oldest callback of the frame: physicsStep(time)
physicsStep ==
  /\ nFrame > 0
  /\ LET n1 == nPending - 1
         f1 == nFrame - 1
         af1 == AfterInvoke(animationFrameRef)
     IN  IF ~lastTimeRef.set
           THEN /\ lastTimeRef' = [set |-> TRUE, ago |-> 0]
                /\ animationFrameRef' = RequestFrame(n1)
                /\ nPending' = n1 + 1
                /\ nFrame' = f1
                /\ rescheduled' = TRUE
                /\ emitted' = <<>>
                /\ dom' = IF f1 = 0 THEN posRef ELSE dom
                /\ elapsed' = 0
                /\ UNCHANGED <<posRef, velocityRef, lastCollidedButton, contOverlap,
                               dragNotes, pressed, sinceDragEnd>>
           ELSE LET dt == StepDt(lastTimeRef.ago)
                    obstacles == Rendered(layout, pressed)
                    b == StepBody(posRef, velocityRef, lastCollidedButton,
                                  draggingRef, dt, CharRectAt(dom), obstacles)
                    go == ContinueLoop(draggingRef, b.vel)
                    list == IF go THEN [n |-> n1 + 1, f |-> f1]
                                  ELSE CancelFrame(af1, n1, f1)
                IN  /\ lastTimeRef' = [set |-> TRUE, ago |-> 0]
                    /\ posRef' = b.pos
                    /\ velocityRef' = b.vel
                    /\ lastCollidedButton' = b.last
                    /\ animationFrameRef' = IF go THEN RequestFrame(n1) ELSE NullHandle
                    /\ nPending' = list.n
                    /\ nFrame' = list.f
                    /\ rescheduled' = go
                    /\ emitted' = b.notes
                    /\ dom' = IF list.f = 0 THEN b.pos ELSE dom
                    /\ pressed' = IF list.f = 0
                                    THEN LetterTouched(CharRectAt(dom), obstacles)
                                    ELSE pressed
                    /\ contOverlap' = (contOverlap \cup Entered(b.notes))
                                        \cap TagsAt(b.pos, layout)
                    /\ dragNotes' = dragNotes \cup NotesOf(b.notes)
                    /\ sinceDragEnd' = [set |-> FALSE, ago |-> 0]
                    /\ elapsed' = lastTimeRef.ago
  /\ last' = "step"
  /\ UNCHANGED <<grabVelocity, draggingRef, offsetRef, layout, dragSeen, dragLeft, lastPointer,
                 events, frames>>

----------------------------------------------------------------------------

Next ==
  \/ \E grab \in GrabOffsets : handleDragStart(grab)
  \/ \E pointer \in Pointers : handleDragMove(pointer)
  \/ handleDragEnd
  \/ \E random \in ImpulseVx : handleClick(random)
  \/ \E key \in Keys, random \in ImpulseVx : handleKeyDown(key, random)
  \/ \E d \in FrameDts : BeginFrame(d)
  \/ physicsStep

Spec == Init /\ [][Next]_vars

\* the same handlers on the pages of ContactLayouts, with drag moves onto and
\* under the button and back to where the pointer went down, grabs at any phase
\* of the bounce animation, and frames stamped before the latest drag-end
ContactNext ==
  \/ \E grab \in LiftedGrabs : handleDragStart(grab)
  \/ \E pointer \in ContactPointers \cup {lastPointer} : handleDragMove(pointer)
  \/ handleDragEnd
  \/ \E random \in ImpulseVx : handleClick(random)
  \/ \E key \in Keys, random \in ImpulseVx : handleKeyDown(key, random)
  \/ \E d \in ContactFrameDts : BeginFrame(d)
  \/ physicsStep

ContactSpec == ContactInit /\ [][ContactNext]_vars

\* the same handlers in a short window, with drag moves against the four sides of
\* the button and beyond the viewport's top edge, a frame after a long pause, and
\* the page laid out anew
EdgeNext ==
  \/ \E grab \in GrabOffsets : handleDragStart(grab)
  \/ \E pointer \in EdgePointers : handleDragMove(pointer)
  \/ handleDragEnd
  \/ \E random \in EdgeImpulseVx : handleClick(random)
  \/ \E key \in Keys, random \in EdgeImpulseVx : handleKeyDown(key, random)
  \/ \E obstacles \in EdgeLayouts : Reflow(obstacles)
  \/ \E d \in EdgeFrameDts : BeginFrame(d)
  \/ physicsStep

EdgeSpec == EdgeInit /\ [][EdgeNext]_vars

\* no input event arrives once the first frame has begun
BeforeFrames == last \notin {"frame", "step"}

\* a frame 16 ms after the previous clock reading, of a run of any length
Tick == StartFrame(FrameInterval) /\ UNCHANGED frames

\* drags on the pages of ContactLayouts, then frames at a constant rate for as
\* long as a callback is pending
QuietNext ==
  \/ BeforeFrames /\ \E grab \in GrabOffsets : handleDragStart(grab)
  \/ BeforeFrames /\ \E pointer \in ContactPointers : handleDragMove(pointer)
  \/ BeforeFrames /\ handleDragEnd
  \/ Tick
  \/ physicsStep

QuietSpec ==
  ContactInit /\ [][QuietNext]_vars /\ WF_vars(Tick) /\ WF_vars(physicsStep)

----------------------------------------------------------------------------
(* Properties *)

\* the transition is a physicsStep: only physicsStep takes a callback off the frame
StepTaken == nFrame' < nFrame

\* some obstacle on screen touches the rendered character
Collides(charRect, obstacles) ==
  \E i \in 1..Len(obstacles) :
    ~OffScreen(obstacles[i].rect) /\ isColliding(charRect, obstacles[i].rect)

\* every obstacle the rendered character touches carries a tag
OnlyTaggedTouched(charRect, obstacles) ==
  \A i \in 1..Len(obstacles) :
    isColliding(charRect, obstacles[i].rect) => obstacles[i].tag # NoTag

InsideViewport(p) ==
  /\ 0 <= p.x /\ p.x <= ViewportWidth - Px(CharSize)
  /\ 0 <= p.y /\ p.y <= ViewportHeight - Px(CharSize)

StrictlyBetweenTopAndBottom(p) ==
  0 < p.y /\ p.y < ViewportHeight - Px(CharSize)

ButtonNotes(notes, t) ==
  { n \in NotesOf(notes) : n[2] = t /\ n[1] \in {"buttonEnter", "buttonExit"} }

\* C1: after any physics step the character lies inside the viewport:
\* 0 <= x <= viewportWidth - width and 0 <= y <= viewportHeight - height.
C1_BoundaryInvariant == last = "step" => InsideViewport(posRef)

\* C2: at most one physics step is pending at any time, so at most one runs
\* in an animation frame.
C2_SingleStepPending == nPending <= 1 /\ nFrame <= 1

\* C3: no physics step fires between a drag-start and the matching drag-end.
C3_NoStepWhileDragging == last = "step" => ~draggingRef

\* C4: while the character continuously overlaps a tagged obstacle it has entered,
\* a step raises no further buttonEnter for that tag, and a buttonExit for a tag is
\* raised only once the character no longer overlaps it; also when untagged
\* obstacles are overlapped in the same frame (at most one tagged obstacle is).
C4_TagTransition ==
  [][ (StepTaken /\ Cardinality(TagsAt(dom, layout)) <= 1) =>
        \A t \in Tags :
          /\ t \in contOverlap => <<"buttonEnter", t>> \notin NotesOf(emitted')
          /\ <<"buttonExit", t>> \in NotesOf(emitted') => t \notin TagsAt(posRef', layout)
    ]_vars

\* C5: once a drag that moved the character onto a tagged obstacle and off it again
\* has ended and the next step has run, buttonEnter and buttonExit have both been
\* raised for that tag since the drag-start.
C5_DragAcrossNotifies ==
  (last = "step" /\ ~draggingRef) =>
    \A t \in dragLeft :
      <<"buttonEnter", t>> \in dragNotes /\ <<"buttonExit", t>> \in dragNotes

\* C6 as stated: a step requests the next one iff dragging is true or a velocity
\* component is not below 1 px/s in magnitude.
C6_ContinueIffNotBelowThreshold ==
  [][ (StepTaken /\ lastTimeRef.set) =>
        (rescheduled' <=> ( \/ draggingRef'
                            \/ ~(Abs(velocityRef'.vx) < Px(1))
                            \/ ~(Abs(velocityRef'.vy) < Px(1)) ))
    ]_vars

\* C6 amended: a step requests the next one iff dragging is true or a velocity
\* component exceeds 1 px/s in magnitude (exactly 1 px/s stops the loop); and once
\* no step is pending, a step becomes pending only by a drag-end, a click or a
\* keyboard jump.
C6_ContinueIffAboveThreshold ==
  [][ /\ (StepTaken /\ lastTimeRef.set) =>
           (rescheduled' <=> ( \/ draggingRef'
                               \/ Abs(velocityRef'.vx) > Px(1)
                               \/ Abs(velocityRef'.vy) > Px(1) ))
      /\ (nPending = 0 /\ nPending' > 0) => last' \in {"dragEnd", "click", "keyJump"}
    ]_vars

\* C6 witness: a step has ended with a horizontal speed of exactly 1 px/s, the
\* character not dragged, and has stopped the loop.
C6_Witness ==
  /\ last = "step" /\ ~draggingRef /\ ~rescheduled /\ nPending = 0
  /\ Abs(velocityRef.vx) = Px(1)

\* C7: a step whose dt is zero or negative changes neither position, velocity nor
\* the tracked tag and raises no notification.
C7_NonPositiveDtNoop ==
  [][ (StepTaken /\ lastTimeRef.set /\ StepDt(lastTimeRef.ago) <= 0) =>
        /\ posRef' = posRef
        /\ velocityRef' = velocityRef
        /\ lastCollidedButton' = lastCollidedButton
        /\ emitted' = <<>>
    ]_vars

\* C8: while the character stays over two tagged obstacles it has entered (and
\* touches no untagged obstacle), a step raises no notification for either of
\* them: only the transition into the more recent one was reported.
C8_OnlyMostRecentTransition ==
  [][ (StepTaken /\ Cardinality(contOverlap) >= 2
         /\ OnlyTaggedTouched(CharRectAt(dom), Rendered(layout, pressed))
         /\ contOverlap \subseteq TagsAt(posRef', layout)) =>
        \A t \in contOverlap : ButtonNotes(emitted', t) = {}
    ]_vars

\* C9 as stated: with dt > 0, dragging false and no obstacles, a step ends with
\* velocity.y = velocity.y before + gravity * dt.
C9_GravityEveryStep ==
  [][ (StepTaken /\ lastTimeRef.set /\ ~draggingRef /\ layout = <<>>
         /\ StepDt(lastTimeRef.ago) > 0) =>
        velocityRef'.vy = velocityRef.vy + gravity * StepDt(lastTimeRef.ago)
    ]_vars

\* C9 amended: with dt > 0, dragging false and no obstacles, a step that does not
\* end on the top or bottom viewport boundary ends with
\* velocity.y = velocity.y before + gravity * dt.
C9_GravityAwayFromBoundary ==
  [][ (StepTaken /\ lastTimeRef.set /\ ~draggingRef /\ layout = <<>>
         /\ StepDt(lastTimeRef.ago) > 0
         /\ StrictlyBetweenTopAndBottom(posRef')) =>
        velocityRef'.vy = velocityRef.vy + gravity * StepDt(lastTimeRef.ago)
    ]_vars

\* C9 witness: with no obstacles the character, released at rest, has made a step
\* of 100 ms in free fall.
C9_Witness ==
  /\ last = "step" /\ ~draggingRef /\ layout = <<>>
  /\ StrictlyBetweenTopAndBottom(posRef)
  /\ velocityRef.vy = gravity * MaxDt

\* the step starts with the jump velocity, lasts 16 ms, meets no obstacle and does
\* not end on the top or bottom viewport boundary
JumpStep16 ==
  /\ StepTaken /\ lastTimeRef.set /\ ~draggingRef
  /\ velocityRef.vy = -Px(JumpSpeed)
  /\ StepDt(lastTimeRef.ago) = 16
  /\ ~Collides(CharRectAt(dom), Rendered(layout, pressed))
  /\ StrictlyBetweenTopAndBottom(posRef')

\* C10 as stated: the step after a click impulse, dt = 16 ms and no collision, moves
\* the character by -800*0.016 + 0.5*2000*0.016^2 = -12.544 px vertically.
C10_DisplacementHalfGravity ==
  [][ JumpStep16 =>
        posRef'.y - posRef.y
          = RoundDiv(-Px(JumpSpeed) * 16, Milli) + RoundDiv(gravity * 16 * 16, 2 * Milli)
    ]_vars

\* C10 amended: that step moves the character by (-800 + 2000*0.016)*0.016
\* = -12.288 px vertically: gravity is added to the velocity before the position
\* is advanced.
C10_DisplacementAfterGravity ==
  [][ JumpStep16 => posRef'.y - posRef.y = -12288 ]_vars

\* C10 witness: a step has turned the jump velocity of -800 px/s into -768 px/s
\* (16 ms of gravity) without raising a notification.
C10_Witness ==
  /\ last = "step" /\ ~draggingRef /\ emitted = <<>>
  /\ velocityRef.vy = -Px(JumpSpeed) + gravity * 16
  /\ StrictlyBetweenTopAndBottom(posRef)

\* the obstacles on screen the rendered character touches (indices)
Touched(charRect, obstacles) ==
  { i \in 1..Len(obstacles) :
      ~OffScreen(obstacles[i].rect) /\ isColliding(charRect, obstacles[i].rect) }

\* the step resolves exactly one obstacle, number i, on the given axis
SoleHit(i, axis) ==
  /\ StepTaken /\ lastTimeRef.set
  /\ Touched(CharRectAt(dom), Rendered(layout, pressed)) = {i}
  /\ ResolveAxis(CharRectAt(dom), Rendered(layout, pressed)[i].rect).axis = axis

\* the character as it reaches the obstacle loop of the step
Arrived ==
  Arrive(posRef, velocityRef, lastCollidedButton, draggingRef,
         StepDt(lastTimeRef.ago))

\* C12: when a step resolves an obstacle on the top axis, a speed |velocity.y|
\* below the landing threshold of the obstacle's class (150 ground, 200 letter)
\* ends with position.y = obstacle.top - height and velocity.y = 0; a speed at or
\* above it ends with position.y pushed up by the overlap and velocity.y
\* = -velocity.y * 0.7.
C12_LandOrBounce ==
  [][ \A i \in 1..Len(layout) :
        SoleHit(i, "top") =>
          LET o == Rendered(layout, pressed)[i]
              b == Arrived
              threshold == IF o.letter THEN Px(200) ELSE Px(150)
              overlap == CharRectAt(dom).bottom - o.rect.top
          IN  IF Abs(b.vel.vy) < threshold
                THEN posRef'.y = o.rect.top - Px(CharSize) /\ velocityRef'.vy = 0
                ELSE /\ posRef'.y = b.pos.y - overlap
                     /\ velocityRef'.vy = Times(-b.vel.vy, 7, 10)
    ]_vars

\* C12 with the offset of a pressed title letter: the rest position is
\* obstacle.top - height + letterOffsetY
C12_LandWithLetterOffset ==
  [][ \A i \in 1..Len(layout) :
        SoleHit(i, "top") =>
          LET o == Rendered(layout, pressed)[i]
              b == Arrived
              threshold == IF o.letter THEN Px(200) ELSE Px(150)
              overlap == CharRectAt(dom).bottom - o.rect.top
          IN  IF Abs(b.vel.vy) < threshold
                THEN /\ posRef'.y = o.rect.top - Px(CharSize) + o.offsetY
                     /\ velocityRef'.vy = 0
                ELSE /\ posRef'.y = b.pos.y - overlap
                     /\ velocityRef'.vy = Times(-b.vel.vy, 7, 10)
    ]_vars

\* C14: a click or a space-key jump with dragging false sets velocity.y to -800,
\* changes velocity.x by at most 100 px/s, leaves the position and requests a
\* step; with dragging true it changes no ref and requests nothing.
C14_ImpulseOnlyWhenNotDragging ==
  [][ last' \in {"click", "keyJump"} =>
        IF ~draggingRef
          THEN /\ velocityRef'.vy = -Px(800)
               /\ Abs(velocityRef'.vx - velocityRef.vx) <= Px(100)
               /\ posRef' = posRef
               /\ ~draggingRef'
               /\ nPending' > 0 /\ animationFrameRef'.rank = nPending'
               /\ lastTimeRef' = [set |-> TRUE, ago |-> 0]
          ELSE UNCHANGED <<posRef, velocityRef, draggingRef, offsetRef,
                           animationFrameRef, lastTimeRef, lastCollidedButton,
                           nPending, nFrame>>
    ]_vars

\* C14 witness: a click has given the resting character the jump velocity and a
\* horizontal velocity of -100 px/s, and a step is pending.
C14_Witness ==
  /\ last = "click" /\ ~draggingRef /\ nPending = 1
  /\ velocityRef = [vx |-> -Px(100), vy |-> -Px(JumpSpeed)]
  /\ posRef = InitialPos(layout)

\* C17: a drag-start stops the loop: afterwards no step is pending and the loop
\* is idle, also when the loop was already stopped (then nothing changes).
C17_StopLeavesIdle ==
  [][ last' = "dragStart" =>
        /\ animationFrameRef' = NullHandle
        /\ nPending' = 0
        /\ (animationFrameRef = NullHandle /\ nPending = 0) =>
              UNCHANGED <<nPending, nFrame, animationFrameRef, lastTimeRef>>
    ]_vars

\* obstacles with tags on exactly those of the index set T
Tagging(obstacles, T) ==
  [i \in 1..Len(obstacles) |->
     [obstacles[i] EXCEPT !.tag = IF i \in T THEN "A" ELSE NoTag]]

\* C19: the position and velocity a step ends with are those it ends with under
\* any other choice of the obstacles that carry a tag (same rectangles, same
\* classes).
C19_TagsDoNotMove ==
  [][ (StepTaken /\ lastTimeRef.set) =>
        \A T \in SUBSET (1..Len(layout)) :
          LET b == StepBody(posRef, velocityRef, lastCollidedButton, draggingRef,
                            StepDt(lastTimeRef.ago), CharRectAt(dom),
                            Tagging(Rendered(layout, pressed), T))
          IN  posRef' = b.pos /\ velocityRef' = b.vel
    ]_vars

\* C19 witness: a step has bounced the character off a menu button it entered.
C19_Witness ==
  /\ last = "step" /\ <<"buttonEnter", "A">> \in NotesOf(emitted)
  /\ velocityRef.vy < 0

\* C20: an arrow key moves position.x by 20 px towards the key's side, not
\* beyond 0 and viewportWidth - 48, and leaves position.y, the velocity,
\* dragging, the tracked tag and the pending steps as they are.
C20_ArrowKeyNudgesOnlyX ==
  [][ last' = "keyNudge" =>
        /\ posRef'.x \in { Max2(0, posRef.x - Px(20)),
                            Min2(ViewportWidth - Px(48), posRef.x + Px(20)) }
        /\ posRef'.y = posRef.y
        /\ UNCHANGED <<velocityRef, draggingRef, lastCollidedButton, nPending,
                       nFrame, animationFrameRef, lastTimeRef>>
    ]_vars

\* C20 witness: an arrow key has moved the character, dragged to the left edge
\* and released, while its step is pending.
C20_Witness ==
  /\ last = "keyNudge" /\ nPending = 1 /\ ~draggingRef
  /\ posRef.x \in {0, Px(20)} /\ posRef.y = Px(190)

\* the character, not dragged, rests on top of ground obstacle i alone: rendered
\* where it is, bottom edge on the obstacle's top edge, |velocity.y| < 150
RestingOn(i) ==
  LET o == Rendered(layout, pressed)[i]
      c == CharRectAt(posRef)
  IN  /\ ~draggingRef /\ dom = posRef
      /\ ~o.letter
      /\ c.bottom = o.rect.top /\ c.right > o.rect.left /\ c.left < o.rect.right
      /\ Touched(c, Rendered(layout, pressed)) = {i}
      /\ Abs(velocityRef.vy) < Px(150)

\* C11: a step of a character resting on top of a ground obstacle with
\* |velocity.y| < 150 leaves position.y at obstacle.top - height and multiplies
\* velocity.x by 0.95, snapped to 0 below 5 px/s.
C11_RestingStaysPinned ==
  [][ \A i \in 1..Len(layout) :
        (StepTaken /\ lastTimeRef.set /\ RestingOn(i)) =>
          LET vx == Times(Arrived.vel.vx, 95, 100)
          IN  /\ posRef'.y = Rendered(layout, pressed)[i].rect.top - Px(CharSize)
              /\ velocityRef'.vx = IF Abs(vx) < Px(5) THEN 0 ELSE vx
    ]_vars

\* the step bounces once, off the top of the viewport with no obstacle touched, or
\* off one obstacle (of positive size) resolved on the bottom axis without
\* reaching the top or bottom of the viewport
CeilingHit ==
  /\ StepTaken /\ lastTimeRef.set
  /\ LET p1 == Integrate(posRef,
                         Gravitate(velocityRef, StepDt(lastTimeRef.ago), draggingRef),
                         StepDt(lastTimeRef.ago))
         touched == Touched(CharRectAt(dom), Rendered(layout, pressed))
     IN  \/ p1.y < 0 /\ touched = {}
         \/ /\ 0 <= p1.y /\ p1.y + Px(CharSize) <= ViewportHeight
            /\ \E i \in 1..Len(layout) :
                 /\ SoleHit(i, "bottom")
                 /\ layout[i].rect.bottom > layout[i].rect.top

\* C13 as stated: a step that starts with velocity.y = -v and bounces off the top
\* of the viewport or off an obstacle on the bottom axis ends with velocity.y
\* = v * 0.7.
C13_BounceOfStartVelocity ==
  [][ CeilingHit => velocityRef'.vy = Times(-velocityRef.vy, 7, 10) ]_vars

\* C13 amended: such a step ends with velocity.y = -(velocity.y + gravity * dt)
\* * 0.7 when the character is not dragged: the bounce reflects the velocity the
\* step's gravity has already been added to.
C13_BounceAfterGravity ==
  [][ CeilingHit =>
        LET vy == IF draggingRef THEN velocityRef.vy
                  ELSE velocityRef.vy + gravity * StepDt(lastTimeRef.ago)
        IN  velocityRef'.vy = Times(-vy, 7, 10)
    ]_vars

\* C13 witness: the character, jumping at -800 px/s and released 4 px inside the
\* bottom edge of the menu button, has been pushed out below it by a step of
\* 16 ms and falls at 0.7 * 768 px/s.
C13_Witness ==
  /\ last = "step" /\ layout = <<ButtonB>> /\ ~draggingRef
  /\ velocityRef.vy = 537600
  /\ posRef.y = 217712

\* C15: a drag-end while dragging clears dragging, samples the clock and requests
\* a step, and the first step after it has dt = the time since that drag-end (at
\* most 0.1 s, not negative), whatever time the drag took; a drag-end while not
\* dragging changes nothing.
C15_DragEndFreshTimestamp ==
  [][ /\ last' = "dragEnd" =>
           IF draggingRef
             THEN /\ ~draggingRef'
                  /\ lastTimeRef' = [set |-> TRUE, ago |-> 0]
                  /\ nPending' = nPending + 1
                  /\ animationFrameRef'.rank = nPending'
             ELSE UNCHANGED <<posRef, velocityRef, draggingRef, offsetRef,
                              animationFrameRef, lastTimeRef, lastCollidedButton,
                              nPending, nFrame>>
      /\ (StepTaken /\ sinceDragEnd.set) =>
           /\ lastTimeRef.set
           /\ StepDt(lastTimeRef.ago) = StepDt(sinceDragEnd.ago)
           /\ StepDt(lastTimeRef.ago) >= 0
    ]_vars

\* C16: a drag-move while dragging sets the position to the pointer position
\* minus the offset recorded at drag-start, so that a move to the pointer position
\* of the drag-start leaves the character where it was; a drag-move while not
\* dragging changes nothing.
C16_DragMoveFollowsPointer ==
  [][ last' = "dragMove" =>
        IF draggingRef
          THEN /\ posRef' = [x |-> lastPointer'.x - offsetRef.x,
                             y |-> lastPointer'.y - offsetRef.y]
               /\ (last = "dragStart" /\ lastPointer' = lastPointer) => posRef' = posRef
          ELSE UNCHANGED <<posRef, velocityRef, draggingRef, offsetRef,
                           animationFrameRef, lastTimeRef, lastCollidedButton,
                           nPending, nFrame>>
    ]_vars

\* C16 without the move back to the drag-start pointer: the position is the
\* pointer position minus the recorded offset
C16_PositionIsPointerMinusOffset ==
  [][ last' = "dragMove" =>
        IF draggingRef
          THEN posRef' = [x |-> lastPointer'.x - offsetRef.x,
                          y |-> lastPointer'.y - offsetRef.y]
          ELSE UNCHANGED <<posRef, velocityRef, draggingRef, offsetRef,
                           animationFrameRef, lastTimeRef, lastCollidedButton,
                           nPending, nFrame>>
    ]_vars

\* C15 without the sign of dt: the first step after a drag-end measures dt from
\* the clock reading of that drag-end
C15_FirstDtFromDragEnd ==
  [][ (StepTaken /\ sinceDragEnd.set) =>
        lastTimeRef.set /\ StepDt(lastTimeRef.ago) = StepDt(sinceDragEnd.ago)
    ]_vars

\* the obstacle's rectangle has a width and a height
HasArea(o) == o.rect.right > o.rect.left /\ o.rect.bottom > o.rect.top

\* C18: a step ends with the position, velocity and notifications it would end
\* with if the zero-sized obstacles were not on the page.
C18_ZeroSizedNeverCollides ==
  [][ (StepTaken /\ lastTimeRef.set) =>
        LET b == StepBody(posRef, velocityRef, lastCollidedButton, draggingRef,
                          StepDt(lastTimeRef.ago), CharRectAt(dom),
                          SelectSeq(Rendered(layout, pressed), HasArea))
        IN  posRef' = b.pos /\ velocityRef' = b.vel /\ emitted' = b.notes
    ]_vars

----------------------------------------------------------------------------
(* The time step, the resolution axis, the obstacles out of sight *)

\* C21: the dt of a step is the time elapsed since lastTimeRef was last written (by
\* the previous step or by the handler that resumed the loop) when that is at
\* most 0.1 s, it is never larger than 0.1 s, and the step moves the character as
\* a step of min(elapsed, 0.1 s) does.
C21_DtClamped ==
  [][ (StepTaken /\ lastTimeRef.set) =>
        LET dt == StepDt(lastTimeRef.ago)
            b == StepBody(posRef, velocityRef, lastCollidedButton, draggingRef,
                          Min2(lastTimeRef.ago, MaxDt), CharRectAt(dom),
                          Rendered(layout, pressed))
        IN  /\ dt <= MaxDt
            /\ lastTimeRef.ago <= MaxDt => dt = lastTimeRef.ago
            /\ posRef' = b.pos
            /\ velocityRef' = b.vel
    ]_vars

\* a step that ran more than 0.1 s after the drag-end that released the character
\* at rest has given it the speed of 0.1 s of gravity
C21_Witness ==
  /\ last = "step"
  /\ elapsed > MaxDt
  /\ ~draggingRef
  /\ velocityRef = [vx |-> 0, vy |-> gravity * MaxDt]

\* the four overlaps of the character's rectangle with an obstacle's
Overlaps(charRect, obsRect) ==
  [top |-> charRect.bottom - obsRect.top,
   bottom |-> obsRect.bottom - charRect.top,
   left |-> charRect.right - obsRect.left,
   right |-> obsRect.right - charRect.left]

AxisOrder == <<"top", "bottom", "left", "right">>

\* the first axis in AxisOrder whose overlap is the smallest of the four
FirstSmallest(ov) ==
  LET k == CHOOSE k \in 1..4 :
             /\ \A j \in 1..4 : ov[AxisOrder[k]] <= ov[AxisOrder[j]]
             /\ \A j \in 1..(k - 1) : ov[AxisOrder[j]] > ov[AxisOrder[k]]
  IN  AxisOrder[k]

\* C22: a step that resolves one obstacle resolves it on the axis of the smallest
\* overlap, the first of top, bottom, left, right among equal ones, and on that
\* axis only: top and bottom leave position.x as integrated, left and right move
\* position.x by the overlap and leave position.y and velocity.y as integrated.
C22_SmallestOverlapAxis ==
  [][ \A i \in 1..Len(layout) :
        ( /\ StepTaken /\ lastTimeRef.set
          /\ Touched(CharRectAt(dom), Rendered(layout, pressed)) = {i} ) =>
          LET o == Rendered(layout, pressed)[i]
              ov == Overlaps(CharRectAt(dom), o.rect)
              axis == FirstSmallest(ov)
              b == Arrived
          IN  /\ axis = "top" =>
                    /\ posRef'.x = b.pos.x
                    /\ posRef'.y \in { o.rect.top - Px(CharSize) + o.offsetY,
                                       b.pos.y - ov.top }
              /\ axis = "bottom" =>
                    /\ posRef'.x = b.pos.x /\ velocityRef'.vx = b.vel.vx
                    /\ posRef'.y = b.pos.y + ov.bottom
              /\ axis = "left" =>
                    /\ posRef'.y = b.pos.y /\ velocityRef'.vy = b.vel.vy
                    /\ posRef'.x = b.pos.x - ov.left
              /\ axis = "right" =>
                    /\ posRef'.y = b.pos.y /\ velocityRef'.vy = b.vel.vy
                    /\ posRef'.x = b.pos.x + ov.right
    ]_vars

\* the character released across ButtonB's top left corner, 8 px in from the top
\* and 8 px in from the left, has landed on the button and kept its x
C22_Witness ==
  /\ last = "step"
  /\ ButtonB \in {layout[i] : i \in 1..Len(layout)}
  /\ lastCollidedButton = "B"
  /\ posRef = [x |-> Px(60), y |-> ButtonB.rect.top - Px(CharSize)]
  /\ velocityRef = [vx |-> 0, vy |-> 0]

\* C23: a step that resolves one obstacle on the left or the right axis moves the
\* integrated position.x out by the overlap (left: minus, right: plus), ends
\* with velocity.x = 0 if the integrated |velocity.x| is below the landing
\* threshold of the obstacle's class (200 letter, 150 ground) and with
\* -velocity.x * 0.7 otherwise, and leaves position.y and velocity.y as integrated.
C23_SidePushOut ==
  [][ \A i \in 1..Len(layout) :
        ( /\ StepTaken /\ lastTimeRef.set
          /\ Touched(CharRectAt(dom), Rendered(layout, pressed)) = {i}
          /\ FirstSmallest(Overlaps(CharRectAt(dom), Rendered(layout, pressed)[i].rect))
               \in {"left", "right"} ) =>
          LET o == Rendered(layout, pressed)[i]
              ov == Overlaps(CharRectAt(dom), o.rect)
              b == Arrived
              threshold == IF o.letter THEN Px(200) ELSE Px(150)
          IN  /\ posRef'.x = IF FirstSmallest(ov) = "left" THEN b.pos.x - ov.left
                                                          ELSE b.pos.x + ov.right
              /\ velocityRef'.vx = IF Abs(b.vel.vx) < threshold
                                     THEN 0 ELSE RoundDiv(-b.vel.vx * 7, 10)
              /\ posRef'.y = b.pos.y
              /\ velocityRef'.vy = b.vel.vy
    ]_vars

\* a character grabbed at 180 px/s to the left and held 2 px into the right edge
\* of the letter S has been stopped by a step, and pushed out to the right
C23_Witness ==
  /\ last = "step"
  /\ layout = <<LetterS>>
  /\ draggingRef
  /\ grabVelocity.vx = -Px(180)
  /\ velocityRef.vx = 0
  /\ posRef.x > lastPointer.x - offsetRef.x - Px(3)

\* the obstacle loop with the overlap test made for every obstacle
RECURSIVE TestEvery(_, _, _, _)
TestEvery(b, obstacles, i, charRect) ==
  IF i > Len(obstacles) THEN b
  ELSE TestEvery(TestObstacle(b, obstacles[i], charRect), obstacles, i + 1, charRect)

\* C24: a step ends with the position, velocity, tracked tag and notifications it
\* would end with if the obstacles outside the viewport were tested for overlap
\* like the others.
C24_SkipIsShortCircuit ==
  [][ (StepTaken /\ lastTimeRef.set) =>
        LET b == ExitWhenNoCollision(
                   TestEvery(Arrived, Rendered(layout, pressed), 1, CharRectAt(dom)))
        IN  /\ posRef' = b.pos
            /\ velocityRef' = b.vel
            /\ lastCollidedButton' = b.last
            /\ emitted' = b.notes
    ]_vars

----------------------------------------------------------------------------
(* The loop comes to a stop *)

Idle == nPending = 0 /\ nFrame = 0

\* C25: once no input event arrives any more and the character is not dragged,
\* frames at a constant positive dt lead to a state with no callback pending.
C25_EventuallyIdle ==
  (~BeforeFrames /\ ~draggingRef) ~> Idle

----------------------------------------------------------------------------
(* The tracked button, overlaps and speeds after a step *)

\* C26: after a step lastCollidedButton is null or the tag of a tagged obstacle
\* that the character's rectangle overlapped in that step, and it is null after a
\* step in which the rectangle overlapped no obstacle, whatever was on the page
\* in the step that set it.
C26_TagIsOverlappedNow ==
  [][ StepTaken =>
        LET obs == Rendered(layout, pressed)
            touched == Touched(CharRectAt(dom), obs)
        IN  /\ \/ lastCollidedButton' = NoTag
                \/ \E i \in touched : obs[i].tag = lastCollidedButton'
            /\ touched = {} => lastCollidedButton' = NoTag
    ]_vars

\* the button the character rested on has gone from the page, and the next step
\* has reported the exit and cleared the tag
C26_Witness ==
  /\ last = "step"
  /\ layout = <<LetterS>>
  /\ lastCollidedButton = NoTag
  /\ <<"buttonExit", "B">> \in NotesOf(emitted)

\* two rectangles share an area, not just an edge or a corner
PositiveOverlap(rect1, rect2) ==
  /\ rect1.left < rect2.right /\ rect2.left < rect1.right
  /\ rect1.top < rect2.bottom /\ rect2.top < rect1.bottom

\* C27: after a step the character's rectangle shares no area with any obstacle
\* that it overlapped when the step's obstacle loop began, as rendered and as
\* integrated.
C27_PushedOutOfObstacles ==
  [][ (StepTaken /\ lastTimeRef.set) =>
        LET obs == Rendered(layout, pressed)
        IN  \A i \in Touched(CharRectAt(dom), obs) :
              isColliding(CharRectAt(Arrived.pos), obs[i].rect) =>
                ~PositiveOverlap(CharRectAt(posRef'), obs[i].rect)
    ]_vars

\* the position a step integrates to, before the viewport clamp
Integrated ==
  Integrate(posRef, Gravitate(velocityRef, StepDt(lastTimeRef.ago), draggingRef),
            StepDt(lastTimeRef.ago))

\* C28: a step that clamps the character to a viewport boundary and resolves no
\* obstacle ends with the velocity component of that boundary pointing into the
\* viewport or zero: vx >= 0 after the left clamp, vx <= 0 after the right one,
\* vy >= 0 after the top one, vy <= 0 after the bottom one.
C28_BounceHeadsInward ==
  [][ ( /\ StepTaken /\ lastTimeRef.set
        /\ Touched(CharRectAt(dom), Rendered(layout, pressed)) = {} ) =>
        /\ Integrated.x < 0 => velocityRef'.vx >= 0
        /\ Integrated.x + Px(CharSize) > ViewportWidth => velocityRef'.vx <= 0
        /\ Integrated.y < 0 => velocityRef'.vy >= 0
        /\ Integrated.y + Px(CharSize) > ViewportHeight => velocityRef'.vy <= 0
    ]_vars

\* C29: after a step |velocity.x| and |velocity.y| are at most what they were
\* right after the step's integration, whatever the boundaries and the obstacles
\* resolved in it.
C29_CollisionsNeverSpeedUp ==
  [][ (StepTaken /\ lastTimeRef.set) =>
        LET v1 == Gravitate(velocityRef, StepDt(lastTimeRef.ago), draggingRef)
        IN  /\ Abs(velocityRef'.vx) <= Abs(v1.vx)
            /\ Abs(velocityRef'.vy) <= Abs(v1.vy)
    ]_vars

\* a character that jumped and was released across the tops of both menu buttons
\* has bounced off the two of them in one step
C29_Witness ==
  /\ last = "step"
  /\ ~draggingRef
  /\ Entered(emitted) = {"A", "B"}
  /\ grabVelocity.vy = -Px(JumpSpeed)
  /\ velocityRef.vy # 0

\* C30: drag-start, drag-move and drag-end leave velocityRef as it is, and the
\* drag-end that ends a drag leaves it what it was at the drag-start, for the
\* first step after the drag to start from.
C30_DragKeepsVelocity ==
  [][ /\ last' \in {"dragStart", "dragMove", "dragEnd"} => velocityRef' = velocityRef
      /\ (draggingRef /\ last' = "dragEnd") => velocityRef' = grabVelocity
    ]_vars

====
